---- MODULE Spec2Model ----
(***************************************************************************)
(* Model of agent.py: ProfessorNotificationAgent.                          *)
(*                                                                         *)
(* Time is counted in minutes since Monday 00:00 of week 0; the model      *)
(* minute m stands for a wall-clock instant strictly inside (m, m+1), as   *)
(* datetime.now() never lands on a whole minute to the microsecond.        *)
(* Coordinates are counted in units of 0.0001 degree, the resolution of    *)
(* the reference point (35.6699, 139.7951) and of the provider's answers.  *)
(* A Python call is modelled by an operator whose value is a record with   *)
(* the field exc (TRUE: an exception left the call) beside its result.     *)
(***************************************************************************)
EXTENDS Integers, Sequences, FiniteSets, TLC

VARIABLES pc, mode, now, gmail_user, gmail_password, next_run, geo, smtp,
          last, runs, started, stalled

vars == <<pc, mode, now, gmail_user, gmail_password, next_run, geo, smtp,
          last, runs, started, stalled>>

---------------------------------------------------------------------------
(* Bounds of the model *)

\* the clock stops advancing after this minute (week 1, Monday 14:05)
MaxNow == 10925

\* the longest time, in minutes, by which one sleep(60) may overrun
MaxStall == 60

\* largest coordinate offset from the school, in 0.0001 degree, of the grid
MaxOff == 101

---------------------------------------------------------------------------
(* Program constants *)

school_lat == 356699
school_lon == 1397951

\* 0.01 degree
Threshold == 100

MondayWeekday == 0
Hour1pm == 13

\* time.sleep(60): one minute
PollMinutes == 1

MinutesPerHour == 60
HoursPerDay == 24
DaysPerWeek == 7

DayMinutes == HoursPerDay * MinutesPerHour
WeekMinutes == DaysPerWeek * DayMinutes

\* os.getenv of a variable that is not set
None == "<None>"

NoJob == -1

---------------------------------------------------------------------------
(* datetime *)

weekday(t) == (t \div DayMinutes) % DaysPerWeek

hour(t) == (t \div MinutesPerHour) % HoursPerDay

\* variant: only the hour is compared
check_monday_1pm_hour_only(t) == hour(t) = Hour1pm

check_monday_1pm(t) ==
    LET is_monday == weekday(t) = MondayWeekday
        is_1pm == hour(t) = Hour1pm
    IN  is_monday /\ is_1pm

---------------------------------------------------------------------------
(* get_location_status *)

\* The answers of the geolocation provider to one requests.get: the request
\* raises (connection error, timeout) or returns; the body parses as a JSON
\* object or response.json() raises; the object has a status or not; it has
\* lat and lon or not. lat and lon are in units of 0.0001 degree.
GeoAnswers(points) ==
    [fetch : {"ok", "raise"}, body : {"json", "garbage"},
     status : {"success", "fail", None}, has_lat : BOOLEAN, has_lon : BOOLEAN,
     lat : {p[1] : p \in points}, lon : {p[2] : p \in points}]

WellFormed(g) ==
    /\ g.fetch = "ok"
    /\ g.body = "json"
    /\ g.status = "success"
    /\ g.has_lat
    /\ g.has_lon

abs(x) == IF x < 0 THEN -x ELSE x

\* The offsets user - school, among those at planar distance exactly 0.01,
\* at which lines 45-47 evaluated in IEEE-754 binary64 give a distance below
\* the binary64 number 0.01 (for instance 35.6599, 139.7951 gives
\* 0.00999999999999801). At the other ten such offsets the computed
\* distance is at least 0.01, and off the circle the rounding error
\* (below 1e-13) never changes the comparison.
RoundsBelow ==
    { <<-100, 0>>, <<-96, -28>>, <<-80, -60>>, <<-80, 60>>, <<-60, -80>>,
      <<-28, -96>>, <<0, -100>>, <<28, -96>>, <<60, -80>>, <<96, -28>> }

\* distance < 0.01, with distance = (lat_diff**2 + lon_diff**2)**0.5 in
\* binary64, decided on the exact squares
distance_lt(user_lat, user_lon) ==
    LET lat_diff == abs(school_lat - user_lat)
        lon_diff == abs(school_lon - user_lon)
        distance2 == lat_diff * lat_diff + lon_diff * lon_diff
    IN  \/ distance2 < Threshold * Threshold
        \/ /\ distance2 = Threshold * Threshold
           /\ <<user_lat - school_lat, user_lon - school_lon>> \in RoundsBelow

location_error ==
    [status |-> "error", at_school |-> FALSE,
     location_description |-> "lookup failed (treated as off campus)",
     coordinates |-> <<>>]

\* The try block, lines 34-62: exc is TRUE when a statement of it raises.
location_try(g) ==
    IF g.fetch = "raise" THEN [exc |-> TRUE, ret |-> location_error]
    ELSE IF g.body # "json" THEN [exc |-> TRUE, ret |-> location_error]
    ELSE IF g.status = None THEN [exc |-> TRUE, ret |-> location_error]
    ELSE IF g.status = "success"
    THEN IF ~g.has_lat THEN [exc |-> TRUE, ret |-> location_error]
         ELSE IF ~g.has_lon THEN [exc |-> TRUE, ret |-> location_error]
         ELSE [exc |-> FALSE,
               ret |-> [status |-> "success",
                        at_school |-> distance_lt(g.lat, g.lon),
                        location_description |-> "city, country",
                        coordinates |-> <<g.lat, g.lon>>]]
    ELSE [exc |-> TRUE, ret |-> location_error]

\* variant: no except clause around the lookup
get_location_status_unguarded(g) == location_try(g)

\* try ... except Exception: every exception of the block becomes the
\* error result
get_location_status(g) ==
    IF location_try(g).exc
    THEN [exc |-> FALSE, ret |-> location_error]
    ELSE location_try(g)

---------------------------------------------------------------------------
(* send_professor_email *)

\* The behaviour of the mail relay during one session: the first step that
\* fails, if any, and its reply to QUIT when the session is left.
SmtpBehaviours ==
    [fail_at : {"none", "connect", "starttls", "login", "send_message"},
     quit : {"221", "other", "disconnected"}]

\* variant: the credentials are submitted before STARTTLS
Steps_login_first == <<"connect", "login", "starttls", "send_message">>

Steps == <<"connect", "starttls", "login", "send_message">>

StepIndex(name) ==
    IF name = "none" THEN 0
    ELSE CHOOSE i \in 1..Len(Steps) : Steps[i] = name

\* The steps attempted in order up to and including the first that fails
Attempted(s) ==
    LET n == StepIndex(s.fail_at)
        m == IF n = 0 THEN Len(Steps) ELSE n
    IN  [i \in 1..m |-> [op |-> Steps[i], ok |-> i # n]]

\* Leaving the with block: SMTP.__exit__ sends QUIT and closes the socket
SessionExit(s) ==
    << [op |-> "quit", ok |-> s.quit = "221"], [op |-> "close", ok |-> TRUE] >>

\* variant: only a failure of send_message is noticed
smtp_session_lax(s) ==
    IF s.fail_at = "connect"
    THEN [exc |-> FALSE, ops |-> Attempted(s)]
    ELSE [exc |-> s.fail_at = "send_message",
          ops |-> Attempted(s) \o SessionExit(s)]

\* with smtplib.SMTP(...) as server: starttls(); login(); send_message().
\* A failed connect raises from the constructor and leaves no session; any
\* other failure leaves the block through __exit__, which raises in its
\* turn when the reply to QUIT is not 221.
smtp_session(s) ==
    IF s.fail_at = "connect"
    THEN [exc |-> TRUE, ops |-> Attempted(s)]
    ELSE [exc |-> s.fail_at # "none" \/ s.quit = "other",
          ops |-> Attempted(s) \o SessionExit(s)]

Truthy(v) == v # None /\ v # ""

\* variant: only the user name is looked at before the session is opened
send_professor_email_user_only(user, password, s) ==
    IF ~Truthy(user)
    THEN [exc |-> FALSE,
          ret |-> [status |-> "error", message |-> "credentials are not set"],
          ops |-> <<>>]
    ELSE [exc |-> FALSE,
          ret |-> [status |-> IF smtp_session(s).exc THEN "error"
                              ELSE "success",
                   message |-> "mail attempted"],
          ops |-> smtp_session(s).ops]

\* variant: no except clause around the mail session
send_professor_email_unguarded(user, password, s) ==
    IF ~Truthy(user) \/ ~Truthy(password)
    THEN [exc |-> FALSE,
          ret |-> [status |-> "error", message |-> "credentials are not set"],
          ops |-> <<>>]
    ELSE [exc |-> smtp_session(s).exc,
          ret |-> [status |-> "success", message |-> "mail sent"],
          ops |-> smtp_session(s).ops]

send_professor_email(user, password, s) ==
    IF ~Truthy(user) \/ ~Truthy(password)
    THEN [exc |-> FALSE,
          ret |-> [status |-> "error", message |-> "credentials are not set"],
          ops |-> <<>>]
    ELSE IF smtp_session(s).exc
    THEN [exc |-> FALSE,
          ret |-> [status |-> "error", message |-> "mail failed"],
          ops |-> smtp_session(s).ops]
    ELSE [exc |-> FALSE,
          ret |-> [status |-> "success", message |-> "mail sent"],
          ops |-> smtp_session(s).ops]

---------------------------------------------------------------------------
(* run_notification_check *)

\* What one call did: the time it ran at, the value of check_monday_1pm,
\* the calls it made in order, the results they returned, the operations of
\* the mail session, and whether an exception left it.
NoRun ==
    [ran |-> FALSE, at |-> 0, gate |-> FALSE, calls |-> <<>>, loc |-> <<>>,
     mail |-> <<>>, ops |-> <<>>, exc |-> FALSE]

\* variant: the at_school test is missing, the mail is always sent
run_notification_check_always_mails(t, g, user, password, s) ==
    LET skipped == [NoRun EXCEPT !.ran = TRUE, !.at = t]
        location_result == get_location_status(g)
        email_result == send_professor_email(user, password, s)
    IN  IF ~check_monday_1pm(t) THEN skipped
        ELSE [skipped EXCEPT
                 !.gate = TRUE,
                 !.calls = <<"get_location_status", "send_professor_email">>,
                 !.loc = <<location_result.ret>>,
                 !.mail = <<email_result.ret>>,
                 !.ops = email_result.ops]

\* variant: a failed lookup ends the run, no mail is sent
run_notification_check_skips_on_error(t, g, user, password, s) ==
    LET skipped == [NoRun EXCEPT !.ran = TRUE, !.at = t]
        location_result == get_location_status(g)
        located == [skipped EXCEPT !.gate = TRUE,
                                   !.calls = <<"get_location_status">>,
                                   !.loc = <<location_result.ret>>]
        email_result == send_professor_email(user, password, s)
    IN  IF ~check_monday_1pm(t) THEN skipped
        ELSE IF location_result.ret.status = "error" THEN located
        ELSE IF location_result.ret.at_school THEN located
        ELSE [located EXCEPT !.calls = @ \o <<"send_professor_email">>,
                             !.mail = <<email_result.ret>>,
                             !.ops = email_result.ops]

run_notification_check(t, g, user, password, s) ==
    LET skipped == [NoRun EXCEPT !.ran = TRUE, !.at = t]
        location_result == get_location_status(g)
        located == [skipped EXCEPT !.gate = TRUE,
                                   !.calls = <<"get_location_status">>]
        email_result == send_professor_email(user, password, s)
        mailing == [located EXCEPT
                       !.loc = <<location_result.ret>>,
                       !.calls = @ \o <<"send_professor_email">>,
                       !.ops = email_result.ops]
    IN  IF ~check_monday_1pm(t) THEN skipped
        ELSE IF location_result.exc THEN [located EXCEPT !.exc = TRUE]
        ELSE IF location_result.ret.at_school
        THEN [located EXCEPT !.loc = <<location_result.ret>>]
        ELSE IF email_result.exc THEN [mailing EXCEPT !.exc = TRUE]
        ELSE [mailing EXCEPT !.mail = <<email_result.ret>>]

---------------------------------------------------------------------------
(* start_scheduler and the entry point *)

SlotOffset == Hour1pm * MinutesPerHour

\* variant: the Monday 13:00 of the current week, passed or not
this_weeks_monday_1pm(t) == (t \div WeekMinutes) * WeekMinutes + SlotOffset

\* schedule.every().monday.at("13:00"): the first Monday 13:00 after t
next_monday_1pm(t) ==
    LET w == t \div WeekMinutes
    IN  IF t < w * WeekMinutes + SlotOffset
        THEN w * WeekMinutes + SlotOffset
        ELSE (w + 1) * WeekMinutes + SlotOffset

\* the weekly slot a run time belongs to
SlotOf(t) == t \div WeekMinutes

Weeks == 0..(MaxNow \div WeekMinutes) + 1

\* the provider's answers and the relay's behaviours a trigger cycle may
\* meet: every kind of failed lookup, and well-formed answers at the school,
\* next to it, on the 0.01 circle and far away (35.0, 140.0)
SamplePoints ==
    { <<school_lat, school_lon>>, <<school_lat + 1, school_lon + 1>>,
      <<school_lat - Threshold, school_lon>>,
      <<school_lat + Threshold, school_lon>>, <<350000, 1400000>> }

Defects(g) ==
    (IF g.fetch = "raise" THEN {"fetch"} ELSE {})
        \cup (IF g.body = "garbage" THEN {"body"} ELSE {})
        \cup (IF g.status # "success" THEN {"status"} ELSE {})
        \cup (IF ~g.has_lat THEN {"lat"} ELSE {})
        \cup (IF ~g.has_lon THEN {"lon"} ELSE {})

GeoCases ==
    {g \in GeoAnswers(SamplePoints) :
        \/ WellFormed(g) /\ <<g.lat, g.lon>> \in SamplePoints
        \/ /\ Cardinality(Defects(g)) = 1
           /\ <<g.lat, g.lon>> = <<school_lat, school_lon>>}

IdleGeo == CHOOSE g \in GeoCases : WellFormed(g)
IdleSmtp == CHOOSE s \in SmtpBehaviours : s.fail_at = "none" /\ s.quit = "221"

\* clock minutes the process may be started at: Monday 12:59, 13:00, 13:59
\* and 14:00, and Tuesday 13:00
StartTimes ==
    { SlotOffset - 1, SlotOffset, SlotOffset + MinutesPerHour - 1,
      SlotOffset + MinutesPerHour, DayMinutes + SlotOffset }

Credentials == {None, "", "set"}

Init ==
    /\ pc = "main"
    /\ mode \in {"test", "daemon"}
    /\ now \in StartTimes
    /\ mode = "daemon" => now \in {SlotOffset - 1, SlotOffset}
    /\ gmail_user \in Credentials
    /\ gmail_password \in Credentials
    /\ next_run = NoJob
    /\ geo = IdleGeo
    /\ smtp = IdleSmtp
    /\ last = NoRun
    /\ runs = [w \in Weeks |-> 0]
    /\ started = now
    /\ stalled = FALSE

\* python agent.py test: one call of run_notification_check, then exit
TestRun ==
    /\ pc = "main"
    /\ mode = "test"
    /\ \E g \in GeoCases, s \in SmtpBehaviours :
          /\ geo' = g
          /\ smtp' = s
          /\ last' = run_notification_check(now, g, gmail_user,
                                            gmail_password, s)
    /\ pc' = IF last'.exc THEN "crashed" ELSE "exit"
    /\ UNCHANGED <<mode, now, gmail_user, gmail_password, next_run, runs,
                   started, stalled>>

\* start_scheduler up to the loop: the weekly job is registered
Register ==
    /\ pc = "main"
    /\ mode = "daemon"
    /\ next_run' = next_monday_1pm(now)
    /\ pc' = "loop"
    /\ UNCHANGED <<mode, now, gmail_user, gmail_password, geo, smtp, last,
                   runs, started, stalled>>

\* time.sleep(60) returns after a minute, or later when the process was
\* held up
Sleep(d) ==
    /\ now' = now + PollMinutes + d
    /\ stalled' = (stalled \/ d > 0)

\* One turn of the loop with no job due: run_pending() does nothing
PollIdle ==
    /\ pc = "loop"
    /\ now <= MaxNow
    /\ now < next_run
    /\ \E d \in {0, MaxStall} : Sleep(d)
    /\ geo' = IdleGeo
    /\ smtp' = IdleSmtp
    /\ last' = NoRun
    /\ UNCHANGED <<pc, mode, gmail_user, gmail_password, next_run, runs,
                   started>>

\* One turn of the loop with the job due: run_pending() calls
\* run_notification_check and schedules the next run; an exception leaving
\* the call leaves the loop
PollDue ==
    /\ pc = "loop"
    /\ now <= MaxNow
    /\ now >= next_run
    /\ \E g \in GeoCases, s \in SmtpBehaviours :
          /\ geo' = g
          /\ smtp' = s
          /\ last' = run_notification_check(now, g, gmail_user,
                                            gmail_password, s)
    /\ runs' = [runs EXCEPT ![SlotOf(next_run)] = @ + 1]
    /\ IF last'.exc
       THEN /\ pc' = "crashed"
            /\ UNCHANGED <<now, next_run, stalled>>
       ELSE /\ pc' = "loop"
            /\ next_run' = next_monday_1pm(now)
            /\ \E d \in {0, MaxStall} : Sleep(d)
    /\ UNCHANGED <<mode, gmail_user, gmail_password, started>>

Next == TestRun \/ Register \/ PollIdle \/ PollDue

Spec == Init /\ [][Next]_vars

---------------------------------------------------------------------------
(* get_location_status on its own, over a grid of answers *)

GeoInputs ==
    GeoAnswers(SamplePoints)
        \cup [fetch : {"ok"}, body : {"json"}, status : {"success"},
              has_lat : {TRUE}, has_lon : {TRUE},
              lat : school_lat - MaxOff..school_lat + MaxOff,
              lon : school_lon - MaxOff..school_lon + MaxOff]

InitGeo ==
    /\ pc = "lookup"
    /\ mode = "test"
    /\ now = SlotOffset
    /\ gmail_user = None
    /\ gmail_password = None
    /\ next_run = NoJob
    /\ geo \in GeoInputs
    /\ smtp = IdleSmtp
    /\ last = NoRun
    /\ runs = [w \in Weeks |-> 0]
    /\ started = now
    /\ stalled = FALSE

Lookup ==
    /\ pc = "lookup"
    /\ last' = [NoRun EXCEPT
                   !.ran = TRUE,
                   !.calls = <<"get_location_status">>,
                   !.loc = IF get_location_status(geo).exc THEN <<>>
                           ELSE <<get_location_status(geo).ret>>,
                   !.exc = get_location_status(geo).exc]
    /\ pc' = "looked"
    /\ UNCHANGED <<mode, now, gmail_user, gmail_password, next_run, geo, smtp,
                   runs, started, stalled>>

SpecGeo == InitGeo /\ [][Lookup]_vars

---------------------------------------------------------------------------
(* Properties *)

Called(name) == \E i \in DOMAIN last.calls : last.calls[i] = name

Times(name) == Cardinality({i \in DOMAIN last.calls : last.calls[i] = name})

\* t lies in the hour from 13:00 of a Monday
InMonday1pmHour(t) == (t % 10080) \in 780..839

Absent(v) == v \in {None, ""}

Did(op) == \E i \in DOMAIN last.ops : last.ops[i] = [op |-> op, ok |-> TRUE]

\* C1: a run whose location result has at_school = TRUE never calls
\* send_professor_email and opens no mail session, whatever the status of
\* the result.
C1_NoMailWhenAtSchool ==
    (last.ran /\ last.loc # <<>> /\ last.loc[1].at_school)
        => (~Called("send_professor_email") /\ last.mail = <<>>
            /\ last.ops = <<>>)

C1_Witness ==
    /\ last.ran
    /\ last.gate
    /\ last.loc # <<>>
    /\ last.loc[1].at_school
    /\ mode = "daemon"

\* C2: a run made in the Monday 13:00 hour whose location result has
\* at_school = FALSE (a failed lookup included) calls send_professor_email
\* exactly once, also when that call returns status = error.
C2_ExactlyOneMailWhenAbsent ==
    (last.ran /\ InMonday1pmHour(last.at))
        => /\ Times("get_location_status") = 1
           /\ Len(last.loc) = 1
           /\ ~last.loc[1].at_school
                 => (Times("send_professor_email") = 1 /\ Len(last.mail) = 1)

C2_Witness ==
    /\ last.ran
    /\ InMonday1pmHour(last.at)
    /\ last.loc # <<>>
    /\ last.loc[1].status = "error"
    /\ last.mail # <<>>
    /\ last.mail[1].status = "error"
    /\ Times("send_professor_email") = 1

\* C3: a run made outside the Monday 13:00 hour calls neither
\* get_location_status nor send_professor_email, whether the scheduler or the
\* test mode made it.
C3_NoCallsOutsideSlot ==
    (last.ran /\ ~InMonday1pmHour(last.at))
        => (last.calls = <<>> /\ last.loc = <<>> /\ last.mail = <<>>
            /\ last.ops = <<>>)

C3_Witness ==
    /\ last.ran
    /\ mode = "daemon"
    /\ ~InMonday1pmHour(last.at)
    /\ last.calls = <<>>

\* C4: get_location_status raises nothing; every answer that is not a
\* well-formed success gives status = error with at_school = FALSE; no
\* result has status = error with at_school = TRUE.
C4_LookupFailureIsError ==
    pc = "looked"
        => /\ ~last.exc
           /\ Len(last.loc) = 1
           /\ ~WellFormed(geo)
                 => (last.loc[1].status = "error" /\ ~last.loc[1].at_school)
           /\ ~(last.loc[1].status = "error" /\ last.loc[1].at_school)

C4_Witness ==
    /\ pc = "looked"
    /\ geo.fetch = "ok"
    /\ geo.body = "json"
    /\ geo.status = "success"
    /\ ~geo.has_lon
    /\ <<geo.lat, geo.lon>> = <<school_lat, school_lon>>
    /\ last.loc # <<>>
    /\ last.loc[1].status = "error"

\* C5: with the user name or the password unset or empty,
\* send_professor_email returns status = error and performs no network
\* operation.
C5_NoNetworkWithoutCredentials ==
    (Called("send_professor_email")
         /\ (Absent(gmail_user) \/ Absent(gmail_password)))
        => /\ Len(last.mail) = 1
           /\ last.mail[1].status = "error"
           /\ last.ops = <<>>

C5_Witness ==
    /\ Called("send_professor_email")
    /\ gmail_user = "set"
    /\ gmail_password = ""
    /\ last.mail # <<>>
    /\ last.mail[1].status = "error"

\* C6: for a well-formed success answer, at_school is TRUE exactly when the
\* planar distance to (35.6699, 139.7951) is strictly below 0.01, compared
\* on the squares in units of 0.0001 degree.
C6_StrictPlanarThreshold ==
    (pc = "looked" /\ WellFormed(geo) /\ last.loc # <<>>)
        => (last.loc[1].at_school
              <=> (geo.lat - 356699) * (geo.lat - 356699)
                    + (geo.lon - 1397951) * (geo.lon - 1397951) < 100 * 100)

\* C7: with both credentials present, send_professor_email raises nothing,
\* returns status = success only if connect, STARTTLS, login and
\* send_message all succeeded, and returns status = error with a message
\* when one of them failed.
C7_MailFailureIsError ==
    (Called("send_professor_email")
         /\ ~Absent(gmail_user) /\ ~Absent(gmail_password))
        => /\ ~last.exc
           /\ Len(last.mail) = 1
           /\ last.mail[1].status \in {"success", "error"}
           /\ last.mail[1].status = "success"
                 => (Did("connect") /\ Did("starttls") /\ Did("login")
                     /\ Did("send_message") /\ smtp.fail_at = "none")
           /\ (smtp.fail_at # "none"
               \/ \E i \in DOMAIN last.ops : ~last.ops[i].ok
                                             /\ last.ops[i].op # "quit")
                 => (last.mail[1].status = "error"
                     /\ last.mail[1].message # "")

C7_Witness ==
    /\ Called("send_professor_email")
    /\ ~Absent(gmail_user)
    /\ ~Absent(gmail_password)
    /\ smtp.fail_at = "login"
    /\ last.mail # <<>>
    /\ last.mail[1].status = "error"

\* C8: in daemon mode no trigger cycle lets an exception out of
\* run_notification_check and the process is always in the polling loop,
\* whatever the lookup and the mail session did.
C8_SchedulerSurvives ==
    mode = "daemon"
        => /\ pc \in {"main", "loop"}
           /\ ~last.exc
           /\ pc = "main" => ~last.ran

C8_Witness ==
    /\ mode = "daemon"
    /\ pc = "loop"
    /\ runs[0] = 1
    /\ runs[1] = 1
    /\ last.ran
    /\ last.loc # <<>>
    /\ last.loc[1].status = "error"
    /\ last.mail # <<>>
    /\ last.mail[1].status = "error"
    /\ smtp.fail_at = "starttls"

\* C9: in daemon mode every weekly slot is run at most once and never
\* before its time; a slot that had passed when the process started is never
\* run; and while every sleep lasted one minute, a slot that fell due while
\* the process was running has been run exactly once by the poll at the slot
\* time, where the Monday 13:00 gate holds.
C9_OncePerWeeklySlot ==
    mode = "daemon"
        => /\ \A w \in Weeks :
                LET slot == w * 10080 + 780
                IN  /\ runs[w] <= 1
                    /\ started >= slot => runs[w] = 0
                    /\ runs[w] = 1 => now > slot
                    /\ (pc = "loop" /\ ~stalled /\ started < slot
                            /\ now > slot)
                          => runs[w] = 1
           /\ (last.ran /\ ~stalled)
                 => (last.gate /\ last.at % 10080 = 780
                     /\ runs[last.at \div 10080] = 1)

C9_Witness ==
    /\ mode = "daemon"
    /\ ~stalled
    /\ started < 780
    /\ runs[0] = 1
    /\ runs[1] = 1
    /\ last.ran
    /\ last.gate

\* C10: the operations of one mail session come in the order connect,
\* STARTTLS, login, send_message, each only after the one before succeeded;
\* at most one message is sent; and a session that was opened is closed.
C10_MailSessionOrder ==
    LET o == last.ops
        After(i, op) == \E j \in 1..(i - 1) : o[j] = [op |-> op, ok |-> TRUE]
    IN  /\ \A i \in DOMAIN o :
              /\ o[i].op = "connect" => i = 1
              /\ o[i].op = "starttls" => After(i, "connect")
              /\ o[i].op = "login" => After(i, "starttls")
              /\ o[i].op = "send_message" => After(i, "login")
              /\ o[i] = [op |-> "connect", ok |-> TRUE]
                    => \E j \in DOMAIN o : j > i /\ o[j].op = "close"
        /\ Cardinality({i \in DOMAIN o : o[i].op = "send_message"}) <= 1

C10_Witness ==
    /\ Did("send_message")
    /\ last.ops[Len(last.ops)].op = "close"
    /\ last.mail # <<>>
    /\ last.mail[1].status = "success"

====
